---------------------------- MODULE Spec2Model ----------------------------
(***************************************************************************)
(* Model of packages/conversations/lib/conversations.ts of the Vonage Node *)
(* SDK: the four transcoding functions, the page fetchers, the two lazy    *)
(* listing generators and the single-item client operations.               *)
(*                                                                         *)
(* JavaScript values are tagged records [t, v]:                            *)
(*   "u" undefined, "s" string, "n" number, "b" boolean,                   *)
(*   "o" object (v is a function from key strings to values),              *)
(*   "a" array (v is a sequence of values).                                *)
(***************************************************************************)
EXTENDS Integers, Sequences, FiniteSets, TLC

VARIABLES
    params,     \* the caller's filter object handed to the listing calls
    origParams, \* what that object held when the caller built it
    gen,        \* per listing iteration: the async generator and its history
    call,       \* the single-item client operation being executed
    tfun,       \* transcoding harness: the functions applied so far
    tin,        \* transcoding harness: the argument as it was before the call
    targ,       \* transcoding harness: the argument object after the call
    tout        \* transcoding harness: the value returned by the last call

vars == <<params, origParams, gen, call, tfun, tin, targ, tout>>
listVars == <<params, origParams, gen>>
transVars == <<tfun, tin, targ, tout>>

-----------------------------------------------------------------------------
(* Bounds of the model *)

\* pages the stub server serves to one listing iteration
MaxPages == 3
\* items the stub server puts in one page
MaxPageLen == 2
\* items in one page when two iterations share a filter object
SharedPageLen == 1

-----------------------------------------------------------------------------
(* JavaScript values *)

U == [t |-> "u"]
Null == [t |-> "null"]
S(x) == [t |-> "s", v |-> x]
N(x) == [t |-> "n", v |-> x]
B(x) == [t |-> "b", v |-> x]
O(f) == [t |-> "o", v |-> f]
A(q) == [t |-> "a", v |-> q]

EmptyFn == [k \in {} |-> U]
EmptyObj == O(EmptyFn)

IsObj(x) == x.t = "o"
IsArr(x) == x.t = "a"

\* the keys of an object; none for anything else
Keys(x) == IF IsObj(x) THEN DOMAIN x.v ELSE {}

\* x?.k : undefined when x is not an object or has no such key
Get(x, k) == IF IsObj(x) /\ k \in DOMAIN x.v THEN x.v[k] ELSE U

\* JavaScript truthiness, as used by `a && b`, `a || b`, `a ? b : c`
Truthy(x) ==
    CASE x.t \in {"u", "null"} -> FALSE
      [] x.t = "s" -> x.v # ""
      [] x.t = "n" -> x.v # 0
      [] x.t = "b" -> x.v
      [] OTHER -> TRUE

\* obj.k = val on an object
Put(x, k, val) == O([j \in DOMAIN x.v \cup {k} |-> IF j = k THEN val ELSE x.v[j]])

\* delete obj.k
Delete(x, k) == IF IsObj(x) THEN O([j \in DOMAIN x.v \ {k} |-> x.v[j]]) ELSE x

\* { ...a, ...b }: spreading a non-object adds nothing
Spread(a, b) ==
    O([j \in Keys(a) \cup Keys(b) |-> IF j \in Keys(b) THEN b.v[j] ELSE a.v[j]])

\* an object holding the keys K of the function f
Pick(f, K) == O([k \in K |-> f[k]])

-----------------------------------------------------------------------------
(* Key case conversion (lodash camelCase / snakeCase) *)

\* lodash words(): the lower-cased words of a key
Words(k) ==
    CASE k \in {"display_name", "displayName"} -> <<"display", "name">>
      [] k \in {"image_url", "imageUrl"} -> <<"image", "url">>
      [] k \in {"sequence_number", "sequenceNumber"} -> <<"sequence", "number">>
      [] k \in {"custom_sort_key", "customSortKey"} -> <<"custom", "sort", "key">>
      [] k \in {"custom_data", "customData"} -> <<"custom", "data">>
      [] k \in {"invited_by", "invitedBy"} -> <<"invited", "by">>
      [] k \in {"knocking_id", "knockingId"} -> <<"knocking", "id">>
      [] k \in {"member_id_inviting", "memberIdInviting"} -> <<"member", "id", "inviting">>
      [] k \in {"conversation_id", "conversationId"} -> <<"conversation", "id">>
      [] k \in {"audio_settings", "audioSettings"} -> <<"audio", "settings">>
      [] k \in {"is_system", "isSystem"} -> <<"is", "system">>
      [] k \in {"page_size", "pageSize"} -> <<"page", "size">>
      [] k \in {"date_start", "dateStart"} -> <<"date", "start">>
      [] k \in {"date_end", "dateEnd"} -> <<"date", "end">>
      [] k \in {"fizz_buzz", "fizzBuzz"} -> <<"fizz", "buzz">>
      [] k \in {"extra_field", "extraField"} -> <<"extra", "field">>
      [] k \in {"baz_bat", "bazBat"} -> <<"baz", "bat">>
      [] k = "_links" -> <<"links">>
      [] k = "_embedded" -> <<"embedded">>
      [] OTHER -> <<k>>

\* lodash upperFirst() on a lower-cased word
UpperFirst(w) ==
    CASE w = "name" -> "Name"
      [] w = "url" -> "Url"
      [] w = "number" -> "Number"
      [] w = "sort" -> "Sort"
      [] w = "key" -> "Key"
      [] w = "data" -> "Data"
      [] w = "by" -> "By"
      [] w = "id" -> "Id"
      [] w = "inviting" -> "Inviting"
      [] w = "settings" -> "Settings"
      [] w = "system" -> "System"
      [] w = "size" -> "Size"
      [] w = "start" -> "Start"
      [] w = "end" -> "End"
      [] w = "buzz" -> "Buzz"
      [] w = "field" -> "Field"
      [] w = "bat" -> "Bat"
      [] OTHER -> w

RECURSIVE JoinCamel(_)
JoinCamel(ws) == IF ws = <<>> THEN "" ELSE UpperFirst(Head(ws)) \o JoinCamel(Tail(ws))

RECURSIVE JoinSnake(_)
JoinSnake(ws) == IF ws = <<>> THEN "" ELSE "_" \o Head(ws) \o JoinSnake(Tail(ws))

camelCase(k) == LET ws == Words(k) IN Head(ws) \o JoinCamel(Tail(ws))
snakeCase(k) == LET ws == Words(k) IN Head(ws) \o JoinSnake(Tail(ws))

CaseFn(style, k) == IF style = "camel" THEN camelCase(k) ELSE snakeCase(k)

-----------------------------------------------------------------------------
(* Client.transformers *)

\* transformObjectKeys(fn, obj, deep): a new object whose keys are renamed;
\* with deep, nested objects and the objects inside arrays are renamed too
RECURSIVE transformObjectKeys(_, _, _)
transformObjectKeys(style, x, deep) ==
    IF ~IsObj(x) THEN x
    ELSE LET renamed == {<<k, CaseFn(style, k)>> : k \in DOMAIN x.v}
         IN  O([k2 \in {p[2] : p \in renamed} |->
                 LET k == (CHOOSE p \in renamed : p[2] = k2)[1]
                     val == x.v[k]
                 IN  IF ~deep THEN val
                     ELSE IF IsObj(val) THEN transformObjectKeys(style, val, deep)
                     ELSE IF IsArr(val)
                          THEN A([i \in DOMAIN val.v |->
                                   transformObjectKeys(style, val.v[i], deep)])
                     ELSE val])

camelCaseObjectKeys(x, deep) == transformObjectKeys("camel", x, deep)
snakeCaseObjectKeys(x, deep) == transformObjectKeys("snake", x, deep)

\* omit(keys, obj): a new object without the named top-level keys
omit(ks, x) == O([j \in Keys(x) \ ks |-> x.v[j]])


-----------------------------------------------------------------------------
(* TranscodingLayer: conversations.ts lines 19-85 *)

\* the property customData / custom_data of a conversation's properties
PropOf(x, k) == Get(Get(x, "properties"), k)

\* conversation.properties.<k> = val
PutProp(x, k, val) == Put(x, "properties", Put(Get(x, "properties"), k, val))

\* what apiToConversation leaves of its argument: `delete response._links`
apiToConversationArg(response) == Delete(response, "_links")

\* mutant: the literal custom_data is not put back after the deep conversion
apiToConversationRenaming(response) ==
    camelCaseObjectKeys(apiToConversationArg(response), TRUE)

apiToConversation(response) ==
    LET customData == PropOf(response, "custom_data")
        conversation == camelCaseObjectKeys(apiToConversationArg(response), TRUE)
    IN  IF Truthy(PropOf(conversation, "customData")) /\ Truthy(customData)
        THEN PutProp(conversation, "customData", customData)
        ELSE conversation

\* mutant: only the id is omitted
ServerOwnedIdOnly == {"id"}

\* the keys conversationToApi omits before the conversion
ServerOwned == {"id", "sequenceNumber", "timestamp", "state"}

\* mutant: the literal customData is not put back after the deep conversion
conversationToApiRenaming(conversation) ==
    snakeCaseObjectKeys(omit(ServerOwned, conversation), TRUE)

conversationToApi(conversation) ==
    LET customData == PropOf(conversation, "customData")
        apiConversation == snakeCaseObjectKeys(omit(ServerOwned, conversation), TRUE)
    IN  IF Truthy(PropOf(apiConversation, "custom_data")) /\ Truthy(customData)
        THEN PutProp(apiConversation, "custom_data", customData)
        ELSE apiConversation

apiToMember(response) ==
    Spread(camelCaseObjectKeys(omit({"_embedded", "_links"}, response), TRUE),
           O("user" :> Spread(EmptyObj,
                camelCaseObjectKeys(
                    omit({"_links"}, Get(Get(response, "_embedded"), "user")),
                    TRUE))))

\* mutant: invitedBy is not omitted, so the conversion sends it as invited_by
MemberOmittedKeepingInviter == {"id", "timestamp", "conversationId", "initiator"}

\* apiToMember when omit, handed the undefined `response._embedded?.user`, throws
\* instead of returning an empty object
apiToMemberThrowing(response) ==
    IF IsObj(Get(Get(response, "_embedded"), "user")) THEN apiToMember(response)
    ELSE [t |-> "throw", v |-> "TypeError"]

\* the keys memberToApi omits before the conversion
MemberOmitted == {"id", "timestamp", "conversationId", "initiator", "invitedBy"}

\* a value that stands for an exception thrown instead of a result
Threw(e) == [t |-> "throw", v |-> e]
IsThrow(x) == x.t = "throw"

memberToApi(member) ==
    IF ~IsObj(Get(member, "user")) THEN Threw("TypeError")
    ELSE Spread(snakeCaseObjectKeys(omit(MemberOmitted, member), TRUE),
                O("user" :> O("id" :> Get(Get(member, "user"), "id")
                              @@ "name" :> Get(Get(member, "user"), "name"))
                  @@ "member_id_inviting" :> Get(member, "invitedBy")))

-----------------------------------------------------------------------------
(* The values the callers and the stub server hand in (the test fixtures of *)
(* __tests__/common.ts and the shapes the types allow)                      *)

\* customData payloads: empty, the fixture's mixed-case one, a nested one
CustomDataValues ==
    { EmptyObj,
      O("foo" :> S("bar") @@ "fizzBuzz" :> N(123) @@ "baz_bat" :> B(TRUE)),
      O("baz_bat" :> O("fizzBuzz" :> N(1)) @@ "foo" :> A(<<O("fizz_buzz" :> S("x"))>>)) }

\* every subset of the scalar keys in Ks, with customData put under cdKey or left out
PropertiesValues(full, Ks, cdKey) ==
    { Pick(full, K) : K \in {{}, Ks} }
    \cup { Put(Pick(full, K), cdKey, cd) : K \in {{}, Ks}, cd \in CustomDataValues }

DomainProps == "ttl" :> N(86400) @@ "type" :> S("public") @@ "customSortKey" :> S("foo")
WireProps == "ttl" :> N(86400) @@ "type" :> S("public") @@ "custom_sort_key" :> S("foo")

Timestamp == O("created" :> S("2024-01-17T13:45:56.000Z")
               @@ "updated" :> S("2024-01-17T13:45:56.000Z"))

DomainConvFull ==
    "id" :> S("CON-1") @@ "name" :> S("New Conversation")
    @@ "displayName" :> S("New Conversation")
    @@ "imageUrl" :> S("https://example.com/image.png")
    @@ "state" :> S("ACTIVE") @@ "sequenceNumber" :> N(0) @@ "timestamp" :> Timestamp

WireConvFull ==
    "id" :> S("CON-1") @@ "name" :> S("New Conversation")
    @@ "display_name" :> S("New Conversation")
    @@ "image_url" :> S("https://example.com/image.png")
    @@ "state" :> S("ACTIVE") @@ "sequence_number" :> N(0) @@ "timestamp" :> Timestamp
    @@ "_links" :> O("self" :> O("href" :> S("https://api.nexmo.com/v1/conversations/CON-1")))

\* which of the optional top-level keys a conversation carries
DomainKeySets ==
    { own \cup pub : own \in {{}, {"id"}, {"state", "sequenceNumber", "timestamp"},
                              {"id", "state", "sequenceNumber", "timestamp"}},
                     pub \in {{}, {"name"}, {"name", "displayName", "imageUrl"}} }

WireKeySets ==
    { own \cup pub \cup lnk :
        own \in {{}, {"id", "state", "sequence_number", "timestamp"}},
        pub \in {{}, {"name"}, {"name", "display_name", "image_url"}},
        lnk \in {{}, {"_links"}} }

DomainConversations ==
    { Pick(DomainConvFull, K) : K \in DomainKeySets }
    \cup { Put(Pick(DomainConvFull, K), "properties", p) :
             K \in DomainKeySets,
             p \in PropertiesValues(DomainProps, DOMAIN DomainProps, "customData") }

WireConversations ==
    { Pick(WireConvFull, K) : K \in WireKeySets }
    \cup { Put(Pick(WireConvFull, K), "properties", p) :
             K \in WireKeySets,
             p \in PropertiesValues(WireProps, DOMAIN WireProps, "custom_data") }

WireUser == O("id" :> S("USR-1") @@ "name" :> S("Alice Smith") @@ "display_name" :> S("Alice"))

WireMemberFull ==
    "id" :> S("MEM-1") @@ "state" :> S("JOINED")
    @@ "_embedded" :> O("user" :> WireUser)
    @@ "timestamp" :> O("invited" :> S("2024-01-17T13:45:56.000Z"))
    @@ "initiator" :> O("joined" :> O("is_system" :> B(TRUE)))
    @@ "channel" :> O("type" :> S("phone") @@ "number" :> S("447700900000"))
    @@ "media" :> O("audio_settings" :> O("enabled" :> B(TRUE)) @@ "audio" :> B(TRUE))
    @@ "knocking_id" :> S("MEM-3") @@ "invited_by" :> S("USR-3")
    @@ "_links" :> O("self" :> O("href" :> S("https://api.nexmo.com/v1/members/MEM-1")))

DomainMemberFull ==
    "id" :> S("MEM-1") @@ "state" :> S("JOINED")
    @@ "user" :> O("id" :> S("USR-1") @@ "name" :> S("Alice Smith")
                   @@ "displayName" :> S("Alice"))
    @@ "timestamp" :> O("invited" :> S("2024-01-17T13:45:56.000Z"))
    @@ "initiator" :> O("joined" :> O("isSystem" :> B(TRUE)))
    @@ "channel" :> O("type" :> S("phone") @@ "number" :> S("447700900000"))
    @@ "media" :> O("audioSettings" :> O("enabled" :> B(TRUE)) @@ "audio" :> B(TRUE))
    @@ "knockingId" :> S("MEM-3") @@ "invitedBy" :> S("USR-3")

WireMembers ==
    { Pick(WireMemberFull, {"id", "state", "_embedded", "channel"} \cup K) :
        K \in SUBSET {"timestamp", "initiator", "media", "knocking_id", "invited_by", "_links"} }

DomainMembers ==
    { Pick(DomainMemberFull, {"state", "user", "channel"} \cup K) :
        K \in SUBSET {"id", "timestamp", "initiator", "media", "knockingId", "invitedBy"} }

\* values that carry a field the types do not know
WithExtraField(xs, k) == { Put(x, k, S("extra")) : x \in xs }

\* wire members without the embedded collection, or with one that holds no user
WireMembersWithoutUser ==
    { Delete(w, "_embedded") : w \in WireMembers }
    \cup { Put(w, "_embedded", EmptyObj) : w \in WireMembers }

\* domain members without a user
DomainMembersWithoutUser == { Delete(m, "user") : m \in DomainMembers }


-----------------------------------------------------------------------------
(* URLs: a link's href is a string that `new URL(href)` parses.  It is kept *)
(* in parsed form: whether it is absolute, and its query string as the      *)
(* sequence of <<name, raw value>> pairs in the order they are written.     *)

Href(abs, query) == [t |-> "url", v |-> [abs |-> abs, query |-> query]]

\* percent-decoding of a raw query value, as URLSearchParams does it
URLDecode(raw) ==
    CASE raw = "a%2Fb" -> "a/b"
      [] raw = "c+d" -> "c d"
      [] OTHER -> raw

\* new URL(href).searchParams.get(name): the decoded value of the first
\* parameter of that name, null when there is none
searchParamsGet(href, name) ==
    LET q == href.v.query
        at == {i \in DOMAIN q : q[i][1] = name}
    IN  IF at = {} THEN Null
        ELSE S(URLDecode(q[CHOOSE i \in at : \A j \in at : i <= j][2]))

\* new URL(href) throws a TypeError unless href is an absolute URL
ValidURL(href) == href.t = "url" /\ href.v.abs

-----------------------------------------------------------------------------
(* PageFetcher: getConversationPage (lines 173-188), getMemberPage (354-368) *)

\* the key of the embedded collection, which is also the key of the page's items
ItemsKey(kind) == IF kind = "conversations" THEN "conversations" ELSE "members"

\* the path a page of the kind is fetched from
PagePath(kind, conversationId) ==
    IF kind = "conversations" THEN <<"v1", "conversations">>
    ELSE <<"v1", "conversations", conversationId, "members">>

\* mutant: the filter is sent as the caller wrote it
PageRequestUnconverted(kind, conversationId, filter) ==
    [method |-> "GET", path |-> PagePath(kind, conversationId),
     query |-> filter, body |-> U]

\* the GET request of one page: the filter's keys in snake case, values as they are
PageRequest(kind, conversationId, filter) ==
    [method |-> "GET", path |-> PagePath(kind, conversationId),
     query |-> snakeCaseObjectKeys(filter, FALSE), body |-> U]

\* resp.data._embedded?.<items> || []
EmbeddedItems(data, kind) ==
    LET arr == Get(Get(data, "_embedded"), ItemsKey(kind))
    IN  IF Truthy(arr) THEN arr.v ELSE <<>>

Transcode(kind, item) ==
    IF kind = "conversations" THEN apiToConversation(item) ELSE apiToMember(item)

\* mutant: resp.data._embedded.<items>.map(...) without the guards
PageOfUnguarded(kind, data) ==
    IF ~IsArr(Get(Get(data, "_embedded"), ItemsKey(kind))) THEN Threw("TypeError")
    ELSE O(ItemsKey(kind) :> A([i \in DOMAIN EmbeddedItems(data, kind) |->
                                  Transcode(kind, EmbeddedItems(data, kind)[i])])
           @@ "pageSize" :> Get(data, "page_size")
           @@ "links" :> Get(data, "_links"))

\* the page a fetcher returns for the response body `data`
PageOf(kind, data) ==
    O(ItemsKey(kind) :> A([i \in DOMAIN EmbeddedItems(data, kind) |->
                             Transcode(kind, EmbeddedItems(data, kind)[i])])
      @@ "pageSize" :> Get(data, "page_size")
      @@ "links" :> Get(data, "_links"))

-----------------------------------------------------------------------------
(* The stub server *)

Errors == {"TransportError", "ApiError"}

\* the raw cursor the server writes into the next link of its n-th page
ServerCursor(n) ==
    CASE n % 3 = 1 -> "next"
      [] n % 3 = 2 -> "a%2Fb"
      [] OTHER -> "c+d"

\* the k-th item of the collection the server pages through
WireItem(kind, k) ==
    IF kind = "conversations"
    THEN LET base == IF k % 2 = 1
                     THEN Put(O(WireConvFull), "properties",
                              Put(O(WireProps), "custom_data",
                                  O("foo" :> S("bar") @@ "fizzBuzz" :> N(123)
                                    @@ "baz_bat" :> B(TRUE))))
                     ELSE Pick(WireConvFull, {"id", "name", "state"})
         IN  Put(base, "id", S("CON-" \o ToString(k)))
    ELSE LET base == IF k % 2 = 1 THEN O(WireMemberFull)
                     ELSE Pick(WireMemberFull, {"id", "state", "_embedded"})
         IN  Put(base, "id", S("MEM-" \o ToString(k)))

PageShapes == {"full", "noEmbedded", "noArray"}
LinkKinds == {"noLinks", "selfOnly", "next", "nextNoCursor", "nextEmptyCursor", "nextRelative"}

SelfLink == O("href" :> Href(FALSE, <<>>))

ServerLinks(linkKind, n) ==
    CASE linkKind = "selfOnly" -> O("self" :> SelfLink)
      [] linkKind = "next" ->
            O("self" :> SelfLink
              @@ "next" :> O("href" :> Href(TRUE, << <<"page_size", "10">>,
                                                     <<"cursor", ServerCursor(n)>> >>)))
      [] linkKind = "nextNoCursor" ->
            O("self" :> SelfLink
              @@ "next" :> O("href" :> Href(TRUE, << <<"page_size", "10">> >>)))
      [] linkKind = "nextEmptyCursor" ->
            O("self" :> SelfLink
              @@ "next" :> O("href" :> Href(TRUE, << <<"cursor", "">> >>)))
      [] OTHER ->
            O("self" :> SelfLink
              @@ "next" :> O("href" :> Href(FALSE, << <<"cursor", ServerCursor(n)>> >>)))

\* the body of the n-th page: `len` items starting with the `first`-th of the collection
ServerPage(kind, n, first, len, shape, linkKind) ==
    LET items == [j \in 1..len |-> WireItem(kind, first + j - 1)]
        body == CASE shape = "full" ->
                        "page_size" :> N(10) @@ "_embedded" :> O(ItemsKey(kind) :> A(items))
                  [] shape = "noArray" ->
                        "page_size" :> N(10) @@ "_embedded" :> EmptyObj
                  [] OTHER -> "page_size" :> N(10)
    IN  IF linkKind = "noLinks" THEN O(body)
        ELSE Put(O(body), "_links", ServerLinks(linkKind, n))


\* the pages the server may answer with: a malformed envelope carries no items
ServerPages(kind, n, first, linkKinds) ==
    { ServerPage(kind, n, first, c[1], c[2], c[3]) :
        c \in { d \in (0..MaxPageLen) \X PageShapes \X linkKinds :
                  d[2] # "full" => d[1] = 0 } }

-----------------------------------------------------------------------------
(* SequenceIterator: listAllConversations (lines 135-149) and listAllMembers *)
(* (lines 311-326).  One record per generator object:                        *)
\*   pc        "unused" | "created" (body not started) | "fetching" (at the
\*             await of the page fetch) | "yielded" (suspended inside
\*             the yield) | "completed" (returned or threw)
\*   result    how the consumer's latest next() settled: "none", "pending",
\*             "item", "done", or the name of the error it rejected with
\*   thrown    the error the generator body threw, "none" while it has not
\*   buffer    the items of resp.<items> that yield* has not produced yet
\*   links     resp.links of the page being produced
\*   requests, served, delivered, raised: the history of the iteration: the
\*             requests sent, the page bodies received, the items handed to
\*             the consumer, the error the transport raised


Iters == {"first", "second"}

Last(q) == q[Len(q)]

NewGen(kind, conversationId) ==
    [pc |-> "created", kind |-> kind, convId |-> conversationId, result |-> "none",
     thrown |-> "none", buffer |-> <<>>, links |-> U, requests |-> <<>>,
     served |-> <<>>, delivered |-> <<>>, raised |-> "none"]

UnusedGen == [NewGen("none", "none") EXCEPT !.pc = "unused"]

\* lines 143-145: the cursor of the next link, null without one
NextCursor(links) ==
    IF Truthy(Get(links, "next"))
    THEN LET href == Get(Get(links, "next"), "href")
         IN  IF ValidURL(href) THEN searchParamsGet(href, "cursor") ELSE Threw("TypeError")
    ELSE Null

\* mutant: the cursor is written only into a filter that has none yet
ThreadCursorOnce(filter, next) ==
    IF "cursor" \in Keys(filter) THEN filter
    ELSE Put(filter, "cursor", IF Truthy(next) THEN next ELSE S(""))

\* line 147: params.cursor = next || ''
ThreadCursor(filter, next) == Put(filter, "cursor", IF Truthy(next) THEN next ELSE S(""))

\* line 140: the generator calls the page fetcher, which sends its request at once
FetchPage(g, filter) ==
    [g EXCEPT !.pc = "fetching",
              !.requests = Append(@, PageRequest(g.kind, g.convId, filter))]

\* mutant: the page is produced from its end
YieldFromEnd(g) ==
    [g EXCEPT !.pc = "yielded", !.result = "item",
              !.delivered = Append(@, Last(g.buffer)),
              !.buffer = SubSeq(@, 1, Len(@) - 1)]

\* line 142: yield* hands the next item of the page to the waiting consumer
Yield(g) ==
    [g EXCEPT !.pc = "yielded", !.result = "item",
              !.delivered = Append(@, Head(g.buffer)), !.buffer = Tail(@)]

\* mutant: `while (true)`: the loop goes on after a page without a cursor
AfterPageAlways(g, filter) ==
    LET next == NextCursor(g.links)
    IN  IF IsThrow(next)
        THEN [g |-> [g EXCEPT !.pc = "completed", !.result = next.v, !.thrown = next.v],
              params |-> filter]
        ELSE [g |-> FetchPage(g, ThreadCursor(filter, next)),
              params |-> ThreadCursor(filter, next)]

\* mutant: the generator is suspended between the cursor write and the next
\* fetch, which a later draw sends with what the filter object holds by then
AfterPageSuspending(g, filter) ==
    LET next == NextCursor(g.links)
    IN  IF IsThrow(next)
        THEN [g |-> [g EXCEPT !.pc = "completed", !.result = next.v, !.thrown = next.v],
              params |-> filter]
        ELSE IF Truthy(next)
        THEN [g |-> [g EXCEPT !.pc = "created", !.result = "none"],
              params |-> ThreadCursor(filter, next)]
        ELSE [g |-> [g EXCEPT !.pc = "completed", !.result = "done"],
              params |-> ThreadCursor(filter, next)]

\* lines 143-148: after the page's items, thread the cursor and loop or return
AfterPage(g, filter) ==
    LET next == NextCursor(g.links)
    IN  IF IsThrow(next)
        THEN [g |-> [g EXCEPT !.pc = "completed", !.result = next.v, !.thrown = next.v],
              params |-> filter]
        ELSE IF Truthy(next)
        THEN [g |-> FetchPage(g, ThreadCursor(filter, next)),
              params |-> ThreadCursor(filter, next)]
        ELSE [g |-> [g EXCEPT !.pc = "completed", !.result = "done"],
              params |-> ThreadCursor(filter, next)]

\* mutant: the next page is requested before the items of this one are produced
ResumePrefetching(g, filter) ==
    IF g.buffer # <<>> /\ g.pc = "fetching"
    THEN LET r == AfterPage(g, filter)
         IN  [g |-> [r.g EXCEPT !.result = "item",
                                !.delivered = Append(@, Head(g.buffer)),
                                !.buffer = Tail(g.buffer)],
              params |-> r.params]
    ELSE IF g.buffer # <<>> THEN [g |-> Yield(g), params |-> filter]
    ELSE AfterPage(g, filter)

\* mutant: the next page is requested as soon as the last item has been handed
\* over, without waiting for the consumer to ask again
ResumeEager(g, filter) ==
    IF g.buffer # <<>>
    THEN IF Len(g.buffer) = 1 THEN AfterPage(Yield(g), filter)
         ELSE [g |-> Yield(g), params |-> filter]
    ELSE AfterPage(g, filter)

\* the generator runs from inside yield* to its next suspension point
Resume(g, filter) ==
    IF g.buffer # <<>> THEN [g |-> Yield(g), params |-> filter]
    ELSE AfterPage(g, filter)

\* line 140: the page fetcher returned the page of the response body `data`
OnPage(g, data) ==
    LET page == PageOf(g.kind, data)
        items == Get(page, ItemsKey(g.kind))
    IN  [g EXCEPT !.served = Append(@, data),
                  !.buffer = IF Truthy(items) THEN items.v ELSE <<>>,
                  !.links = Get(page, "links")]

\* mutant: the failed fetch is caught and the same request is sent again
OnFetchErrorRetry(g, e) == [g EXCEPT !.requests = Append(@, Last(@))]

\* line 140: the await rejects; nothing catches it, so the generator throws
OnFetchError(g, e) == [g EXCEPT !.pc = "completed", !.result = e, !.thrown = e]

\* the consumer's next() on a generator that has returned or thrown
DrawCompleted(g) == [g EXCEPT !.result = "done"]

\* how many items the server has served to the iteration so far
RECURSIVE ServedCount(_, _)
ServedCount(kind, pages) ==
    IF pages = <<>> THEN 0
    ELSE Len(EmbeddedItems(Head(pages), kind)) + ServedCount(kind, Tail(pages))


-----------------------------------------------------------------------------
(* State of a run *)

\* the filter objects a caller passes to a listing call or to a page fetcher
FilterInputs ==
    { EmptyObj,
      O("pageSize" :> N(1) @@ "order" :> S("asc")
        @@ "dateEnd" :> S("2024-01-17T13:45:56.000Z")
        @@ "dateStart" :> S("2024-01-17T13:45:56.000Z")),
      O("cursor" :> S("start") @@ "order" :> S("desc")) }

ConversationIds == {"CON-1", "CON-2"}

IdleCall ==
    [pc |-> "idle", op |-> "none", arg |-> U, requests |-> <<>>, response |-> U,
     result |-> U, raised |-> "none"]

TransIdle == tfun = <<>> /\ tin = U /\ targ = U /\ tout = U

Init ==
    /\ params \in FilterInputs
    /\ origParams = params
    /\ gen = [i \in Iters |-> UnusedGen]
    /\ call = IdleCall
    /\ TransIdle

ClientIdle == call.pc = "idle" /\ \A i \in Iters : gen[i].pc = "unused"

\* no operation is running and the i-th listing call has not been made
ListIdle(i) == call.pc = "idle" /\ gen[i].pc = "unused"

-----------------------------------------------------------------------------
(* Listing: the caller, the consumer and the transport *)

\* the caller calls listAllConversations(params): a generator object, nothing sent
ListAllConversations(i) ==
    /\ ListIdle(i)
    /\ gen' = [gen EXCEPT ![i] = NewGen("conversations", "none")]
    /\ UNCHANGED <<params, origParams, call, transVars>>

\* the caller calls listAllMembers(conversationId, params)
ListAllMembers(i) ==
    /\ ListIdle(i)
    /\ \E id \in ConversationIds : gen' = [gen EXCEPT ![i] = NewGen("members", id)]
    /\ UNCHANGED <<params, origParams, call, transVars>>

\* the consumer calls next() on the generator and the body runs to its next
\* suspension point
Draw(i) ==
    /\ gen[i].pc \in {"created", "yielded", "completed"}
    /\ gen[i].result # "pending"
    /\ LET g == [gen[i] EXCEPT !.result = "pending"]
           r == CASE gen[i].pc = "created" -> [g |-> FetchPage(g, params), params |-> params]
                  [] gen[i].pc = "yielded" -> Resume(g, params)
                  [] OTHER -> [g |-> DrawCompleted(g), params |-> params]
       IN  /\ gen' = [gen EXCEPT ![i] = r.g]
           /\ params' = r.params
    /\ UNCHANGED <<origParams, call, transVars>>

\* the pages the server may serve next to the iteration: a page with a cursor
\* only while the chain of pages is shorter than MaxPages
NextPages(i) ==
    ServerPages(gen[i].kind, Len(gen[i].served) + 1,
                ServedCount(gen[i].kind, gen[i].served) + 1,
                IF Len(gen[i].served) + 1 < MaxPages
                THEN LinkKinds ELSE LinkKinds \ {"next"})

\* the pending page fetch resolves with the body `data` and the generator runs on
Serve(i, data) ==
    /\ gen[i].pc = "fetching"
    /\ LET r == Resume(OnPage(gen[i], data), params)
       IN  /\ gen' = [gen EXCEPT ![i] = r.g]
           /\ params' = r.params
    /\ UNCHANGED <<origParams, call, transVars>>

\* the transport resolves the pending page fetch with the server's next page
Respond(i) == \E data \in NextPages(i) : Serve(i, data)

\* the transport rejects the pending page fetch
Fail(i) ==
    /\ gen[i].pc = "fetching"
    /\ \E e \in Errors :
         gen' = [gen EXCEPT ![i] = OnFetchError([gen[i] EXCEPT !.raised = e], e)]
    /\ UNCHANGED <<params, origParams, call, transVars>>

-----------------------------------------------------------------------------
(* ResourceClient: the single round trip operations (lines 209-292, 354-492) *)

\* `${value}` in a path
Text(x) == IF x.t = "s" THEN x.v ELSE "undefined"

Request(method, path, body) == [method |-> method, path |-> path, query |-> U, body |-> body]

createConversationRequest(conversation) ==
    Request("POST", <<"v1", "conversations">>, conversationToApi(conversation))

getConversationRequest(conversationId) ==
    Request("GET", <<"v1", "conversations", conversationId>>, U)

updateConversationRequest(conversation) ==
    Request("PUT", <<"v1", "conversations", Text(Get(conversation, "id"))>>,
            conversationToApi(conversation))

deleteConversationRequest(conversationId) ==
    Request("DELETE", <<"v1", "conversations", conversationId>>, U)

createMemberRequest(conversationId, member) ==
    Request("POST", <<"v1", "conversations", conversationId, "members">>, memberToApi(member))

getMemberRequest(conversationId, memberId) ==
    Request("GET", <<"v1", "conversations", conversationId, "members", memberId>>, U)

\* mutant: getMe asks for the member named "self"
getMeRequestSelf(conversationId) == getMemberRequest(conversationId, "self")

\* getMe(conversationId) is getMember(conversationId, 'me')
getMeRequest(conversationId) == getMemberRequest(conversationId, "me")

updateMemberRequest(conversationId, memberId, update) ==
    Request("PATCH", <<"v1", "conversations", conversationId, "members", memberId>>, update)

ConversationOps == {"createConversation", "getConversation", "updateConversation"}
MemberOps == {"createMember", "getMember", "getMe", "updateMember"}
PageOps == {"getConversationPage", "getMemberPage"}

PageKind(op) == IF op = "getConversationPage" THEN "conversations" ELSE "members"

\* what the operation returns for the response body `data`
OpResult(op, data) ==
    CASE op \in ConversationOps -> apiToConversation(data)
      [] op \in MemberOps -> apiToMember(data)
      [] op \in PageOps -> PageOf(PageKind(op), data)
      [] OTHER -> U

\* the operation sends its one request and waits for the response
StartCall(op, arg, req) ==
    [IdleCall EXCEPT !.pc = "inflight", !.op = op, !.arg = arg, !.requests = <<req>>]

\* the awaited request resolved with `data`
OnResponse(c, data) == [c EXCEPT !.pc = "returned", !.result = OpResult(c.op, data)]

\* the awaited request rejected: nothing catches it, the operation rejects with it
OnError(c, e) == [c EXCEPT !.pc = "threw", !.result = Threw(e)]

\* the bodies the stub server answers the single-item operations with
ConversationResponses ==
    { w \in WireConversations : {"id", "display_name", "_links"} \subseteq Keys(w) }

MemberResponses ==
    { w \in WireMembers :
        Keys(w) \in {DOMAIN WireMemberFull, {"id", "state", "_embedded", "channel"}} }

MemberIds == {"MEM-1"}

MemberUpdates == { O("state" :> S("LEFT") @@ "from" :> S("USR-1")) }

CreateConversation ==
    /\ ClientIdle
    /\ \E c \in DomainConversations :
         call' = StartCall("createConversation", c, createConversationRequest(c))
    /\ UNCHANGED <<listVars, transVars>>

GetConversation ==
    /\ ClientIdle
    /\ \E id \in ConversationIds :
         call' = StartCall("getConversation", S(id), getConversationRequest(id))
    /\ UNCHANGED <<listVars, transVars>>

UpdateConversation ==
    /\ ClientIdle
    /\ \E c \in DomainConversations :
         call' = StartCall("updateConversation", c, updateConversationRequest(c))
    /\ UNCHANGED <<listVars, transVars>>

DeleteConversation ==
    /\ ClientIdle
    /\ \E id \in ConversationIds :
         call' = StartCall("deleteConversation", S(id), deleteConversationRequest(id))
    /\ UNCHANGED <<listVars, transVars>>

GetConversationPage ==
    /\ ClientIdle
    /\ call' = StartCall("getConversationPage", params,
                         PageRequest("conversations", "none", params))
    /\ UNCHANGED <<listVars, transVars>>

GetMemberPage ==
    /\ ClientIdle
    /\ \E id \in ConversationIds :
         call' = StartCall("getMemberPage", params, PageRequest("members", id, params))
    /\ UNCHANGED <<listVars, transVars>>

\* memberToApi runs before anything is sent: when it throws, nothing is sent
CreateMember ==
    /\ ClientIdle
    /\ \E id \in ConversationIds, m \in DomainMembers :
         call' = IF IsThrow(memberToApi(m))
                 THEN [IdleCall EXCEPT !.pc = "threw", !.op = "createMember", !.arg = m,
                                       !.result = memberToApi(m)]
                 ELSE StartCall("createMember", m, createMemberRequest(id, m))
    /\ UNCHANGED <<listVars, transVars>>

GetMember ==
    /\ ClientIdle
    /\ \E id \in ConversationIds, mid \in MemberIds \cup {"me"} :
         call' = StartCall("getMember", S(mid), getMemberRequest(id, mid))
    /\ UNCHANGED <<listVars, transVars>>

GetMe ==
    /\ ClientIdle
    /\ \E id \in ConversationIds : call' = StartCall("getMe", S(id), getMeRequest(id))
    /\ UNCHANGED <<listVars, transVars>>

UpdateMember ==
    /\ ClientIdle
    /\ \E id \in ConversationIds, mid \in MemberIds, u \in MemberUpdates :
         call' = StartCall("updateMember", u, updateMemberRequest(id, mid, u))
    /\ UNCHANGED <<listVars, transVars>>

\* the transport resolves the pending request of the operation
OpRespond ==
    /\ call.pc = "inflight"
    /\ \E data \in
            CASE call.op \in ConversationOps -> ConversationResponses
              [] call.op \in MemberOps -> MemberResponses
              [] call.op \in PageOps ->
                    ServerPages(PageKind(call.op), 1, 1, LinkKinds)
              [] OTHER -> {U} :
         call' = OnResponse([call EXCEPT !.response = data], data)
    /\ UNCHANGED <<listVars, transVars>>

\* the transport rejects the pending request of the operation
OpFail ==
    /\ call.pc = "inflight"
    /\ \E e \in Errors : call' = OnError([call EXCEPT !.raised = e], e)
    /\ UNCHANGED <<listVars, transVars>>

-----------------------------------------------------------------------------
(* The transcoding functions applied on their own, and one after the other *)

ApplyApiToConversation ==
    /\ \/ /\ tfun = <<>>
          /\ \E w \in WireConversations \cup WithExtraField(WireConversations, "extra_field") :
               /\ tin' = w
               /\ targ' = apiToConversationArg(w)
               /\ tout' = apiToConversation(w)
       \/ /\ tfun = <<"conversationToApi">>
          /\ tin' = tin
          /\ targ' = apiToConversationArg(tout)
          /\ tout' = apiToConversation(tout)
    /\ tfun' = Append(tfun, "apiToConversation")
    /\ UNCHANGED <<listVars, call>>

ApplyConversationToApi ==
    /\ \/ /\ tfun = <<>>
          /\ \E c \in DomainConversations
                        \cup WithExtraField(DomainConversations, "extraField") :
               /\ tin' = c
               /\ targ' = c
               /\ tout' = conversationToApi(c)
       \/ /\ tfun = <<"apiToConversation">>
          /\ tin' = tin
          /\ targ' = tout
          /\ tout' = conversationToApi(tout)
    /\ tfun' = Append(tfun, "conversationToApi")
    /\ UNCHANGED <<listVars, call>>

\* omit is defined outside this package: handed the undefined embedded user it
\* returns an empty object or throws, and both outcomes are taken
ApplyApiToMember ==
    /\ tfun = <<>>
    /\ \E w \in WireMembers \cup WireMembersWithoutUser
                 \cup WithExtraField(WireMembers, "extra_field") :
         /\ tin' = w
         /\ targ' = w
         /\ tout' \in {apiToMember(w), apiToMemberThrowing(w)}
    /\ tfun' = <<"apiToMember">>
    /\ UNCHANGED <<listVars, call>>

ApplyMemberToApi ==
    /\ tfun = <<>>
    /\ \E m \in DomainMembers \cup DomainMembersWithoutUser
                 \cup WithExtraField(DomainMembers, "extraField") :
         /\ tin' = m
         /\ targ' = m
         /\ tout' = memberToApi(m)
    /\ tfun' = <<"memberToApi">>
    /\ UNCHANGED <<listVars, call>>

InitTranscode ==
    /\ params = EmptyObj
    /\ origParams = EmptyObj
    /\ gen = [i \in Iters |-> UnusedGen]
    /\ call = IdleCall
    /\ TransIdle

NextTranscode ==
    \/ ApplyApiToConversation
    \/ ApplyConversationToApi
    \/ ApplyApiToMember
    \/ ApplyMemberToApi

SpecTranscode == InitTranscode /\ [][NextTranscode]_vars

Next ==
    \/ ListAllConversations("first")
    \/ ListAllMembers("first")
    \/ Draw("first")
    \/ Respond("first")
    \/ Fail("first")
    \/ CreateConversation
    \/ GetConversation
    \/ UpdateConversation
    \/ DeleteConversation
    \/ GetConversationPage
    \/ GetMemberPage
    \/ CreateMember
    \/ GetMember
    \/ GetMe
    \/ UpdateMember
    \/ OpRespond
    \/ OpFail

Spec == Init /\ [][Next]_vars

\* a consumer that keeps drawing: a `for await` loop that runs to the end
FairSpec == Spec /\ WF_vars(Draw("first"))

\* the server answers the iteration with a well-formed page of at most
\* SharedPageLen items that has no links or a next link with a cursor
RespondWellFormed(i) ==
    \E data \in { p \in NextPages(i) :
                     /\ IsArr(Get(Get(p, "_embedded"), ItemsKey(gen[i].kind)))
                     /\ Len(EmbeddedItems(p, gen[i].kind)) <= SharedPageLen
                     /\ Get(p, "_links") \in {U, ServerLinks("next", Len(gen[i].served) + 1)} } :
        Serve(i, data)

\* two listing calls that are handed the same filter object, the second made
\* once the first has been made; their consumers draw in any order, so either
\* iteration may run to its end or be left where it is
NextShared ==
    \/ ListAllConversations("first")
    \/ gen["first"].pc # "unused" /\ ListAllConversations("second")
    \/ gen["first"].pc # "unused" /\ ListAllMembers("second")
    \/ \E i \in Iters : Draw(i)
    \/ \E i \in Iters : RespondWellFormed(i)

SharedSpec == Init /\ [][NextShared]_vars

-----------------------------------------------------------------------------
(* Properties of the listing iterations *)

\* the item array a page body carries, none when the envelope lacks it
RawItems(kind, data) ==
    LET arr == Get(Get(data, "_embedded"), ItemsKey(kind))
    IN  IF IsArr(arr) THEN arr.v ELSE <<>>

\* the transcoded items of the pages, page after page, each page in its own order
RECURSIVE Expected(_, _)
Expected(kind, pages) ==
    IF pages = <<>> THEN <<>>
    ELSE [i \in DOMAIN RawItems(kind, Head(pages)) |->
            Transcode(kind, RawItems(kind, Head(pages))[i])]
         \o Expected(kind, Tail(pages))

IsPrefix(p, q) == Len(p) <= Len(q) /\ \A i \in DOMAIN p : p[i] = q[i]

Started(i) == gen[i].pc # "unused"

\* the next link of a page body, undefined when it has none
NextLink(data) == Get(Get(data, "_links"), "next")

\* C1: the sequence handed to the consumer is the concatenation of the transcoded
\* items of the pages served so far, in page order and in within-page order: it is
\* always a prefix of it, and it is all of it whenever the generator asks for a
\* further page or has returned.
C1_ListingIsConcatenation ==
    \A i \in Iters :
        Started(i) =>
            LET g == gen[i]
                all == Expected(g.kind, g.served)
            IN  /\ IsPrefix(g.delivered, all)
                /\ (g.pc = "fetching" \/ (g.pc = "completed" /\ g.thrown = "none"))
                       => g.delivered = all

\* a listing that went through two pages holding items and then returned
C1_Witness ==
    \E i \in Iters :
        /\ gen[i].pc = "completed"
        /\ gen[i].thrown = "none"
        /\ Len(gen[i].served) >= 2
        /\ \A n \in DOMAIN gen[i].served : Len(RawItems(gen[i].kind, gen[i].served[n])) >= 1
        /\ Len(gen[i].delivered) >= 3

\* the last page served has no next link
LastHasNoNext(i) ==
    /\ gen[i].served # <<>>
    /\ ~Truthy(NextLink(Last(gen[i].served)))

\* the generator returned normally, having sent one request per page served and
\* handed over every item
Completed(i) ==
    /\ gen[i].pc = "completed"
    /\ gen[i].result = "done"
    /\ gen[i].thrown = "none"
    /\ Len(gen[i].requests) = Len(gen[i].served)
    /\ gen[i].delivered = Expected(gen[i].kind, gen[i].served)

\* C2: once a page without a next link has been served, the iteration sends no
\* further request and raises no error, and a consumer that keeps drawing
\* eventually sees it complete, after exactly as many requests as pages served.
C2_CompletesWithoutNextLink ==
    \A i \in Iters :
        /\ [](LastHasNoNext(i) =>
                 /\ Len(gen[i].requests) = Len(gen[i].served)
                 /\ gen[i].thrown = "none")
        /\ (LastHasNoNext(i) ~> Completed(i))

\* a chain of MaxPages pages, the last without a next link, run to completion
C2_Witness ==
    \E i \in Iters :
        /\ LastHasNoNext(i)
        /\ Completed(i)
        /\ Len(gen[i].served) = MaxPages
        /\ Len(gen[i].requests) = MaxPages

\* C3: while the request for a further page is out, every item of the pages
\* served before has been delivered; and what is held undelivered is never more
\* than the rest of the latest page.
C3_NoFetchBeforePageDelivered ==
    \A i \in Iters :
        Started(i) =>
            LET g == gen[i]
                all == Expected(g.kind, g.served)
            IN  /\ Len(g.requests) > Len(g.served)
                       => /\ g.buffer = <<>>
                          /\ g.delivered = all
                /\ g.served # <<>>
                       => /\ Len(g.buffer) <= Len(RawItems(g.kind, Last(g.served)))
                          /\ g.delivered \o g.buffer = all

\* the request for the second page is out after a first page of two items
C3_Witness ==
    \E i \in Iters :
        /\ gen[i].pc = "fetching"
        /\ Len(gen[i].requests) = 2
        /\ Len(gen[i].served) = 1
        /\ Len(gen[i].delivered) = 2

\* C4: a request is sent only in a step at whose end a next() of the consumer is
\* outstanding, in which no item is delivered, and after every item of the pages
\* served so far has been delivered: so the first request answers the first draw,
\* the request for page N+1 answers the draw that follows the last item of page N,
\* and a consumer that has stopped drawing causes no request.
C4_RequestsOnlyOnDraw ==
    [][\A i \in Iters :
          Len(gen'[i].requests) > Len(gen[i].requests) =>
              /\ gen'[i].result = "pending"
              /\ gen'[i].delivered = gen[i].delivered
              /\ gen'[i].delivered = Expected(gen'[i].kind, gen'[i].served)]_vars

\* the consumer holds the last item of the first page, has not drawn again, and
\* only the first request has been sent although the page has a next link
C4_Witness ==
    \E i \in Iters :
        /\ gen[i].pc = "yielded"
        /\ gen[i].result = "item"
        /\ gen[i].buffer = <<>>
        /\ Len(gen[i].served) = 1
        /\ Truthy(NextCursor(gen[i].links))
        /\ Len(gen[i].requests) = 1

\* the value of the cursor parameter in the query string of a page's next link,
\* as URLSearchParams.get returns it
CursorOf(data) == searchParamsGet(Get(NextLink(data), "href"), "cursor")

\* C5: the request for page N+1 carries as its cursor the cursor found in the
\* query string of page N's next link, and its other filter fields are those of
\* the first request of the iteration.
C5_CursorEchoed ==
    \A i \in Iters :
        \A n \in DOMAIN gen[i].requests :
            n > 1 =>
                LET q == gen[i].requests[n].query
                    q1 == gen[i].requests[1].query
                IN  /\ Get(q, "cursor") = CursorOf(gen[i].served[n - 1])
                    /\ Keys(q) \ {"cursor"} = Keys(q1) \ {"cursor"}
                    /\ \A k \in Keys(q) \ {"cursor"} : Get(q, k) = Get(q1, k)

\* a third request, sent with the percent-encoded cursor of the second page, in an
\* iteration whose filter had other fields
C5_Witness ==
    \E i \in Iters :
        /\ Len(gen[i].requests) = 3
        /\ Get(gen[i].requests[3].query, "cursor") = S("a/b")
        /\ Get(gen[i].requests[2].query, "cursor") = S("next")
        /\ Get(gen[i].requests[3].query, "page_size") = N(1)

-----------------------------------------------------------------------------
(* Properties of the transcoding functions and of the single operations *)

\* C6: customData is copied unchanged in both directions: the customData of
\* apiToConversation's result is the custom_data of the wire value, no key in it
\* renamed, and the custom_data of conversationToApi's result is the customData of
\* the domain value.
C6_CustomDataVerbatim ==
    /\ tfun = <<"apiToConversation">>
           => PropOf(tout, "customData") = PropOf(tin, "custom_data")
    /\ tfun = <<"conversationToApi">>
           => PropOf(tout, "custom_data") = PropOf(tin, "customData")

\* apiToConversation was applied to a wire value whose custom_data nests keys in
\* snake case and in camel case
C6_Witness ==
    /\ tfun = <<"apiToConversation">>
    /\ "fizzBuzz" \in Keys(Get(PropOf(tin, "custom_data"), "baz_bat"))
    /\ "custom_sort_key" \in Keys(Get(tin, "properties"))
    /\ "customSortKey" \in Keys(Get(tout, "properties"))

\* C7: apiToConversation(conversationToApi(c)) has the name, displayName, imageUrl
\* and properties of c, and lacks exactly the server-owned fields of c.
C7_RoundTrip ==
    tfun = <<"conversationToApi", "apiToConversation">> =>
        /\ \A k \in {"name", "displayName", "imageUrl", "properties"} :
               Get(tout, k) = Get(tin, k)
        /\ Keys(tout) = Keys(tin) \ {"id", "sequenceNumber", "timestamp", "state"}

\* the round trip of a conversation that has server-owned fields, scalar
\* properties and a customData with mixed-case keys
C7_Witness ==
    /\ tfun = <<"conversationToApi", "apiToConversation">>
    /\ {"id", "state", "displayName"} \subseteq Keys(tin)
    /\ "customSortKey" \in Keys(Get(tin, "properties"))
    /\ "fizzBuzz" \in Keys(PropOf(tin, "customData"))

\* C8: the body sent by createConversation and updateConversation never contains
\* the server-owned fields id, sequence number, timestamp or state.
C8_NoServerOwnedInBody ==
    call.op \in {"createConversation", "updateConversation"} =>
        \A n \in DOMAIN call.requests :
            Keys(call.requests[n].body)
                \cap {"id", "sequence_number", "sequenceNumber", "timestamp", "state"} = {}

\* updateConversation has sent its request for a conversation that holds all four
\* server-owned fields
C8_Witness ==
    /\ call.op = "updateConversation"
    /\ Len(call.requests) = 1
    /\ {"id", "sequenceNumber", "timestamp", "state", "name"} \subseteq Keys(call.arg)
    /\ "name" \in Keys(call.requests[1].body)

\* C9: an error raised by the transport reaches the caller as that same error
\* after one request attempt; in a listing the failed fetch ends the sequence with
\* that error, the failed request is the last one sent, and what was delivered
\* before is exactly the items of the pages served, each once.
C9_ErrorsPropagate ==
    /\ call.raised # "none" =>
           /\ call.pc = "threw"
           /\ call.result = Threw(call.raised)
           /\ Len(call.requests) = 1
    /\ \A i \in Iters :
           gen[i].raised # "none" =>
               /\ gen[i].pc = "completed"
               /\ gen[i].thrown = gen[i].raised
               /\ gen[i].result \in {gen[i].raised, "done"}
               /\ Len(gen[i].requests) = Len(gen[i].served) + 1
               /\ gen[i].delivered = Expected(gen[i].kind, gen[i].served)

\* the fetch of the second page failed after the two items of the first page were
\* delivered, and the consumer has drawn again since
C9_Witness ==
    \E i \in Iters :
        /\ gen[i].raised = "ApiError"
        /\ gen[i].result = "done"
        /\ Len(gen[i].served) = 1
        /\ Len(gen[i].delivered) = 2

\* the page body lacks the item array of the kind
Malformed(kind, data) == ~IsArr(Get(Get(data, "_embedded"), ItemsKey(kind)))

\* the page's next link holds a cursor the iteration goes on with
HasCursor(data) ==
    /\ Truthy(NextLink(data))
    /\ ValidURL(Get(NextLink(data), "href"))
    /\ Truthy(CursorOf(data))

\* C10: a page whose envelope lacks the item array is returned by the page
\* fetchers as a page with an empty item list, not as an error; a listing
\* delivers no item for it and goes on as its links say: with a request carrying
\* the cursor of its next link, or by completing.
C10_MalformedPageIsEmpty ==
    /\ (call.op \in PageOps /\ call.response # U
            /\ Malformed(PageKind(call.op), call.response))
           => /\ call.pc = "returned"
              /\ Get(call.result, ItemsKey(PageKind(call.op))) = A(<<>>)
              /\ Get(call.result, "links") = Get(call.response, "_links")
    /\ \A i \in Iters :
           (gen[i].served # <<>> /\ Malformed(gen[i].kind, Last(gen[i].served)))
               => LET g == gen[i]
                      data == Last(g.served)
                  IN  /\ g.buffer = <<>>
                      /\ g.delivered = Expected(g.kind, SubSeq(g.served, 1, Len(g.served) - 1))
                      /\ IF HasCursor(data)
                         THEN /\ Len(g.requests) = Len(g.served) + 1
                              /\ Get(Last(g.requests).query, "cursor") = CursorOf(data)
                         ELSE /\ g.pc = "completed"
                              /\ Len(g.requests) = Len(g.served)
                              /\ g.raised = "none"

\* a listing whose first page had no embedded collection but a next link, and
\* which went on to a second page with an item
C10_Witness ==
    \E i \in Iters :
        /\ Len(gen[i].served) = 2
        /\ Malformed(gen[i].kind, gen[i].served[1])
        /\ "_embedded" \notin Keys(gen[i].served[1])
        /\ Len(gen[i].delivered) = 1

-----------------------------------------------------------------------------
(* Properties of the member operations *)

\* C11: the body createMember sends carries the member's invitedBy under
\* member_id_inviting and has no invited_by (nor invitedBy) field; a member an
\* operation returns carries the response's invited_by under invitedBy, has the
\* embedded user as its top-level user, and has no _embedded or _links field.
C11_InviterNamedPerDirection ==
    /\ (call.op = "createMember" /\ call.requests # <<>>) =>
           LET body == call.requests[1].body
           IN  /\ Get(body, "member_id_inviting") = Get(call.arg, "invitedBy")
               /\ Keys(body) \cap {"invited_by", "invitedBy"} = {}
    /\ (call.op \in MemberOps /\ call.pc = "returned") =>
           LET user == Get(Get(call.response, "_embedded"), "user")
           IN  /\ Get(call.result, "invitedBy") = Get(call.response, "invited_by")
               /\ "invited_by" \notin Keys(call.result)
               /\ Get(Get(call.result, "user"), "id") = Get(user, "id")
               /\ Get(Get(call.result, "user"), "name") = Get(user, "name")
               /\ Get(Get(call.result, "user"), "displayName") = Get(user, "display_name")
               /\ Keys(call.result) \cap {"_embedded", "_links", "embedded", "links"} = {}

\* createMember sent a member that names its inviter and got back a response
\* that names one and carries _embedded and _links
C11_Witness ==
    /\ call.op = "createMember"
    /\ call.pc = "returned"
    /\ Get(call.arg, "invitedBy") = S("USR-3")
    /\ Get(call.requests[1].body, "member_id_inviting") = S("USR-3")
    /\ {"invited_by", "_embedded", "_links"} \subseteq Keys(call.response)
    /\ Get(call.result, "invitedBy") = S("USR-3")

\* the call record getMember(conversationId, 'me') has after sending its request
GetMemberMe(conversationId) ==
    StartCall("getMember", S("me"), getMemberRequest(conversationId, "me"))

\* C12: getMe(conversationId) sends the one request getMember(conversationId, 'me')
\* sends, a GET whose path ends in /members/me, and settles as that call settles on
\* the same response: with the same member, or with the same error.
C12_GetMeIsGetMemberMe ==
    call.op = "getMe" =>
        LET m == GetMemberMe(call.arg.v)
        IN  /\ call.requests = m.requests
            /\ Len(call.requests) = 1
            /\ call.requests[1].method = "GET"
            /\ call.requests[1].path = <<"v1", "conversations", call.arg.v, "members", "me">>
            /\ call.pc = "returned"
                   => call.result = OnResponse(m, call.response).result
            /\ call.pc = "threw"
                   => call.result = OnError(m, call.raised).result

\* getMe returned the member of a full response for the second conversation
C12_Witness ==
    /\ call.op = "getMe"
    /\ call.pc = "returned"
    /\ call.arg = S("CON-2")
    /\ Keys(call.response) = DOMAIN WireMemberFull
    /\ Get(Get(call.result, "user"), "id") = S("USR-1")

-----------------------------------------------------------------------------
(* Properties of the page fetchers *)

\* the name the API gives to a filter parameter
WireName(k) ==
    CASE k = "pageSize" -> "page_size"
      [] k = "dateStart" -> "date_start"
      [] k = "dateEnd" -> "date_end"
      [] OTHER -> k

\* C13: the query getConversationPage and getMemberPage send holds each key of
\* the caller's filter once, under its wire name and with the caller's value, and
\* holds no other parameter.
C13_FilterSentUnderWireNames ==
    (call.op \in PageOps /\ call.requests # <<>>) =>
        LET query == call.requests[1].query
        IN  /\ Keys(query) = {WireName(k) : k \in Keys(call.arg)}
            /\ Cardinality(Keys(query)) = Cardinality(Keys(call.arg))
            /\ \A k \in Keys(call.arg) : Get(query, WireName(k)) = Get(call.arg, k)

\* getConversationPage was called with the four parameters of the test
C13_Witness ==
    /\ call.op = "getConversationPage"
    /\ Keys(call.arg) = {"pageSize", "order", "dateEnd", "dateStart"}
    /\ Get(call.requests[1].query, "page_size") = N(1)
    /\ Get(call.requests[1].query, "date_end") = S("2024-01-17T13:45:56.000Z")

-----------------------------------------------------------------------------
(* Properties of the listing iterations: next links, fresh starts, sharing *)

\* the iteration is still handing over the items of its n-th page
Producing(i, n) == n = Len(gen[i].served) /\ gen[i].pc = "yielded"

\* the iteration went on from its n-th page with the cursor of that page's next link
WentOn(i, n) ==
    /\ Len(gen[i].requests) > n
    /\ Get(gen[i].requests[n + 1].query, "cursor") = CursorOf(gen[i].served[n])

\* C14: every page that carries a next link is followed, once its items are
\* handed over, by a request with the cursor of that link, also when the page has
\* no items; and an iteration whose fetches all succeeded has ended only if its
\* last page carries no next link.
C14_NextLinkFollowed ==
    \A i \in Iters :
        Started(i) =>
            /\ \A n \in DOMAIN gen[i].served :
                   Truthy(NextLink(gen[i].served[n])) => Producing(i, n) \/ WentOn(i, n)
            /\ (gen[i].pc = "completed" /\ gen[i].raised = "none") => LastHasNoNext(i)

\* C14, for the next links the loop can use: a page whose next link is an absolute
\* URL with a non-empty cursor is followed by a request with that cursor, also
\* when the page has no items; an iteration whose fetches all succeeded has ended
\* only after a page without such a link, and with a TypeError exactly when that
\* page's next link is not an absolute URL.
C14_UsableNextLinkFollowed ==
    \A i \in Iters :
        Started(i) =>
            /\ \A n \in DOMAIN gen[i].served :
                   HasCursor(gen[i].served[n]) => Producing(i, n) \/ WentOn(i, n)
            /\ (gen[i].pc = "completed" /\ gen[i].raised = "none") =>
                   /\ gen[i].served # <<>>
                   /\ ~HasCursor(Last(gen[i].served))
                   /\ gen[i].thrown = "TypeError"
                          <=> /\ Truthy(NextLink(Last(gen[i].served)))
                              /\ ~ValidURL(Get(NextLink(Last(gen[i].served)), "href"))

\* the first page carried a next link whose href is a relative URL with a cursor,
\* and the iteration ended with a TypeError without asking for the second page
C14_Witness ==
    \E i \in Iters :
        /\ Len(gen[i].served) = 1
        /\ Truthy(NextLink(gen[i].served[1]))
        /\ CursorOf(gen[i].served[1]) = S("next")
        /\ gen[i].pc = "completed"
        /\ gen[i].thrown = "TypeError"
        /\ Len(gen[i].requests) = 1

\* the query holds the keys of the filter under their wire names, with the
\* filter's values, and nothing else
IsFilterOnWire(query, filter) ==
    /\ Keys(query) = {WireName(k) : k \in Keys(filter)}
    /\ \A k \in Keys(filter) : Get(query, WireName(k)) = Get(filter, k)

\* C15: the first request of every listing call carries the filter as the caller
\* originally supplied it, with no cursor unless the caller set one, also when
\* the same filter object was handed to an earlier iteration that has completed
\* or was left part-way.
C15_FreshStart ==
    \A i \in Iters :
        gen[i].requests # <<>> => IsFilterOnWire(gen[i].requests[1].query, origParams)

\* the caller's filter had no cursor; the first iteration was left holding the
\* item of its second page, and the first request of the second call on the same
\* filter object asks for the page after the first iteration's first page
C15_Witness ==
    /\ "cursor" \notin Keys(origParams)
    /\ gen["first"].pc = "yielded"
    /\ Len(gen["first"].served) = 2
    /\ gen["second"].requests # <<>>
    /\ Get(gen["second"].requests[1].query, "cursor") = S("next")

-----------------------------------------------------------------------------
(* Properties of the transcoding functions: effects, absent fields, failures *)

\* C16: after a call of a transcoding function its argument object holds exactly
\* the fields and values it held before the call.
C16_ArgumentUnchanged ==
    Len(tfun) = 1 => targ = tin

\* apiToConversation was applied to a wire conversation that carried _links, and
\* the argument object has lost them
C16_Witness ==
    /\ tfun = <<"apiToConversation">>
    /\ "_links" \in Keys(tin)
    /\ "_links" \notin Keys(targ)
    /\ \A k \in Keys(targ) : Get(targ, k) = Get(tin, k)

\* the domain name of a wire field
DomainName(k) ==
    CASE k = "display_name" -> "displayName"
      [] k = "image_url" -> "imageUrl"
      [] k = "sequence_number" -> "sequenceNumber"
      [] k = "custom_sort_key" -> "customSortKey"
      [] k = "custom_data" -> "customData"
      [] k = "knocking_id" -> "knockingId"
      [] k = "invited_by" -> "invitedBy"
      [] OTHER -> k

\* the optional fields of the wire values
OptionalWire ==
    {"id", "name", "display_name", "image_url", "state", "sequence_number", "timestamp",
     "properties", "initiator", "media", "knocking_id", "invited_by"}

OptionalWireProperties == {"ttl", "type", "custom_sort_key", "custom_data"}

\* the wire member carries an embedded user
HasEmbeddedUser(w) == IsObj(Get(Get(w, "_embedded"), "user"))

\* no field that the wire value lacks is a key of the domain value
AbsentStaysAbsent(w, d) ==
    /\ \A k \in OptionalWire : k \notin Keys(w) => DomainName(k) \notin Keys(d)
    /\ \A k \in OptionalWireProperties :
           k \notin Keys(Get(w, "properties"))
               => DomainName(k) \notin Keys(Get(d, "properties"))

\* a key of the domain value holds null, undefined or an empty object only if
\* the wire value holds that under the key's wire name
NoPlaceholder(w, d) ==
    \A k \in Keys(d) :
        Get(d, k) \in {U, Null, EmptyObj}
            => \E j \in Keys(w) : DomainName(j) = k /\ Get(w, j) = Get(d, k)

\* C17: apiToConversation and apiToMember produce a domain value in which every
\* optional field that is absent from the wire value is absent too, no key being
\* there with a null, undefined or empty placeholder; a wire member without an
\* embedded user yields a domain member without a user field.
C17_AbsentStaysAbsent ==
    tfun \in {<<"apiToConversation">>, <<"apiToMember">>} =>
        /\ IsObj(tout)
        /\ AbsentStaysAbsent(tin, tout)
        /\ NoPlaceholder(tin, tout)
        /\ (tfun = <<"apiToMember">> /\ ~HasEmbeddedUser(tin)) => "user" \notin Keys(tout)

\* C17, for the wire values it holds for: conversations, and members that carry
\* an embedded user.
C17_AbsentStaysAbsentGivenUser ==
    (\/ tfun = <<"apiToConversation">>
     \/ tfun = <<"apiToMember">> /\ HasEmbeddedUser(tin)) =>
        /\ IsObj(tout)
        /\ AbsentStaysAbsent(tin, tout)
        /\ NoPlaceholder(tin, tout)

\* apiToMember was applied to a wire member without _embedded and returned a
\* member whose user is an empty object
C17_Witness ==
    /\ tfun = <<"apiToMember">>
    /\ "_embedded" \notin Keys(tin)
    /\ Get(tout, "user") = EmptyObj

\* C18: each of the four transcoding functions returns a value and raises no
\* error, whichever of the optional fields its input lacks and whatever extra
\* fields it carries.
C18_TranscodersNeverFail ==
    tfun # <<>> => ~IsThrow(tout)

\* C18, for the inputs it holds for: conversations in both directions, wire
\* members that embed a user, and domain members that have a user.
C18_NeverFailGivenUser ==
    (\/ tfun # <<>> /\ Last(tfun) \in {"apiToConversation", "conversationToApi"}
     \/ tfun = <<"apiToMember">> /\ HasEmbeddedUser(tin)
     \/ tfun = <<"memberToApi">> /\ IsObj(Get(tin, "user"))) =>
        IsObj(tout)

\* memberToApi was applied to a domain member without a user and threw
C18_Witness ==
    /\ tfun = <<"memberToApi">>
    /\ "user" \notin Keys(tin)
    /\ {"state", "channel"} \subseteq Keys(tin)
    /\ tout = Threw("TypeError")

-----------------------------------------------------------------------------
(* Two iterations on one filter object *)

\* C19: when two iterations run interleaved on the same filter object, every
\* follow-up request of an iteration carries the cursor of that iteration's own
\* preceding page; only the first request of an iteration, which sends what the
\* shared object holds at the consumer's first draw, can carry a cursor the
\* other iteration wrote.
C19_OwnCursorWhenShared ==
    /\ [](\A i \in Iters :
             \A n \in DOMAIN gen[i].requests :
                 n > 1 => Get(gen[i].requests[n].query, "cursor")
                              = CursorOf(gen[i].served[n - 1]))
    /\ [][\A i \in Iters :
             (gen[i].requests = <<>> /\ gen'[i].requests # <<>>) =>
                 IsFilterOnWire(gen'[i].requests[1].query, params)]_vars

\* the first iteration asked for its third page; the second then started, its
\* first request carrying the first iteration's cursor, and asked for its own
\* second page with the cursor of its own first page
C19_Witness ==
    /\ Len(gen["first"].requests) = 3
    /\ Get(gen["first"].requests[3].query, "cursor") = S("a/b")
    /\ Len(gen["second"].requests) = 2
    /\ Get(gen["second"].requests[1].query, "cursor") = S("a/b")
    /\ Get(gen["second"].requests[2].query, "cursor") = S("next")

=============================================================================
